---- MODULE Spec2Model ----
(***************************************************************************)
(* Model of the Fluent reference linter, src/reference/fluent/             *)
(* fluent_reference.py: main() calls lint(), which lists the files of the  *)
(* root folder, loads the configuration and, file by file, reads the       *)
(* file, parses it into a Resource and walks it with a fresh Linter; every *)
(* top-level entry of the Resource is one step of the walk.  Source text   *)
(* is a sequence of one-character strings, offsets are 0-based as in       *)
(* Python, sequences are 1-based as in TLA+.                               *)
(***************************************************************************)
EXTENDS Integers, Sequences, FiniteSets, TLC

VARIABLES
    env,                           \* the command line and the file system
    previous,                      \* the earlier runs of the program
    pending,                       \* the files lint() has still to read
    lint_results,                  \* results of lint()
    output,                        \* what has been printed
    exit_code,                     \* the exit status of the process
    path,                          \* Linter.path: the file being linted
    config,                        \* the rule configuration (rule id -> entry)
    contents,                      \* the source text of the file
    offsets_and_lines,             \* Linter.offsets_and_lines: the position index
    body,                          \* parse(contents).body: the top-level entries
    pc,                            \* "main", "start", "visit", "returned",
                                   \* "raised", "linted", "exited", "aborted"
    idx,                           \* number of top-level entries visited so far
    node_can_be_resource_comment,  \* Linter.state[...]
    can_have_group_comment,        \* Linter.state[...]
    ids,                           \* Linter.ids
    results                        \* Linter.results

vars == <<env, previous, pending, lint_results, output, exit_code, path, config, contents, offsets_and_lines,
          body, pc, idx, node_can_be_resource_comment, can_have_group_comment,
          ids, results>>

----------------------------------------------------------------------------
(* Bounds of the explored inputs. *)

\* Most top-level entries of a file whose blank lines vary.
MaxEntries == 2
\* Most top-level entries of a file whose entries are one blank line apart.
MaxSeqEntries == 3
\* Most top-level entries of a file whose identifiers and configuration vary.
MaxIdEntries == 2
\* Longest run of newline characters after an entry.
MaxGap == 3
\* Longest run of newline characters at the start of a file.
MaxLead == 2
\* Largest configured ID02 min_length.
MaxMinLength == 3
\* Most attributes of a message.
MaxAttrs == 1
\* Most pieces of text and markup in the value of a message.
MaxPieces == 2

----------------------------------------------------------------------------
(* Characters and text. *)

NL == "\n"
CR == "\r"

\* The text s written n times.
RECURSIVE Repeat(_, _)
Repeat(s, n) == IF n <= 0 THEN <<>> ELSE s \o Repeat(s, n - 1)

\* s in seq (Python: x in list)
InSeq(x, seq) == \E k \in 1..Len(seq) : seq[k] = x

\* Python's \w on the characters used here.
LowerChars == {"a", "b", "c", "d", "e", "i", "k", "m", "n", "o", "p", "r", "t", "v"}
UpperChars == {"A", "B", "N", "F"}
DigitChars == {"0", "1"}
WordChars == LowerChars \cup UpperChars \cup DigitChars \cup {"_"}

----------------------------------------------------------------------------
(* The file as written, and the tree fluent.syntax's parse() returns for   *)
(* it.  A file is a run of leading line ends and a sequence of entries,    *)
(* each followed by a run of e.gap line ends; the line end of a file,      *)
(* f.eol, is "\n" or "\r\n", which the parser reads as one line end with   *)
(* the offset of its "\r".  Entries are written in their                   *)
(* shortest form: "id=value", "-id=value", attributes as "\n .id=value",   *)
(* placeables as "{id}", "{-id}", "{$id}", "{ID()}", a called term or       *)
(* function with its arguments between the parentheses, a select          *)
(* expression as "{selector ->" with every variant, " [key]value" or       *)
(* " *[key]value", on a line of its own and " }" on the last, comments as  *)
(* "#", "##"                                                               *)
(* and "###" followed by " content" when the content is not empty.  A line  *)
(* the parser cannot read as an entry becomes a Junk entry, whose text is  *)
(* e.content and whose span runs to the start of the next entry.           *)

CommentKinds == {"Comment", "GroupComment", "ResourceComment"}
ReferenceKinds == {"MessageReference", "TermReference", "FunctionReference",
                   "VariableReference"}

RECURSIVE ExpressionText(_, _), ArgumentsText(_, _)
RECURSIVE VariantsText(_, _), PatternText(_, _)

\* ".attribute" after the identifier of a reference, and the arguments of a
\* call between parentheses.
AccessorText(e) == IF e.attribute = <<>> THEN <<>> ELSE <<".">> \o e.attribute
CallText(e, eol) == <<"(">> \o ArgumentsText(e.arguments, eol) \o <<")">>

\* The text of an expression, without the braces of its placeable.
ExpressionText(e, eol) ==
    CASE e.kind = "MessageReference" -> e.text \o AccessorText(e)
      [] e.kind = "TermReference" ->
             <<"-">> \o e.text \o AccessorText(e)
             \o (IF e.arguments = <<>> THEN <<>> ELSE CallText(e, eol))
      [] e.kind = "VariableReference" -> <<"$">> \o e.text
      [] e.kind = "FunctionReference" -> e.text \o CallText(e, eol)
      [] e.kind = "SelectExpression" ->
             ExpressionText(e.selector, eol) \o <<" ", "-", ">">>
             \o VariantsText(e.variants, eol) \o eol \o <<" ">>

ArgumentsText(as, eol) ==
    IF as = <<>> THEN <<>>
    ELSE ExpressionText(Head(as), eol) \o (IF Len(as) > 1 THEN <<",">> ELSE <<>>)
         \o ArgumentsText(Tail(as), eol)

\* The text of a variant up to its value.
VariantHead(v, eol) ==
    eol \o <<" ">> \o (IF v.default THEN <<"*">> ELSE <<>>) \o <<"[">> \o v.key \o <<"]">>

VariantsText(vs, eol) ==
    IF vs = <<>> THEN <<>>
    ELSE VariantHead(Head(vs), eol) \o PatternText(Head(vs).value, eol)
         \o VariantsText(Tail(vs), eol)

\* The text of one pattern element.
ElementText(e, eol) ==
    IF e.kind = "TextElement" THEN e.text
    ELSE <<"{">> \o ExpressionText(e, eol) \o <<"}">>

PatternText(p, eol) ==
    IF p = <<>> THEN <<>> ELSE ElementText(Head(p), eol) \o PatternText(Tail(p), eol)

AttributeText(a, eol) ==
    eol \o <<" ", ".">> \o a.name \o <<"=">> \o PatternText(a.value, eol)

RECURSIVE AttributesText(_, _)
AttributesText(as, eol) ==
    IF as = <<>> THEN <<>>
    ELSE AttributeText(Head(as), eol) \o AttributesText(Tail(as), eol)

Hashes(kind) ==
    CASE kind = "Comment" -> <<"#">>
      [] kind = "GroupComment" -> <<"#", "#">>
      [] kind = "ResourceComment" -> <<"#", "#", "#">>

\* The text of an entry up to its value.
EntryHead(e) ==
    IF e.kind = "Term" THEN <<"-">> \o e.name \o <<"=">> ELSE e.name \o <<"=">>

EntryText(e, eol) ==
    IF e.kind = "Junk" THEN e.content
    ELSE IF e.kind \in CommentKinds
    THEN Hashes(e.kind) \o (IF e.content = <<>> THEN <<>> ELSE <<" ">> \o e.content)
    ELSE EntryHead(e) \o PatternText(e.value, eol) \o AttributesText(e.attributes, eol)

RECURSIVE EntriesText(_, _)
EntriesText(es, eol) ==
    IF es = <<>> THEN <<>>
    ELSE EntryText(Head(es), eol) \o Repeat(eol, Head(es).gap)
         \o EntriesText(Tail(es), eol)

\* open(path).read()
FileText(f) == Repeat(f.eol, f.lead) \o EntriesText(f.entries, f.eol)

RECURSIVE ParseExpression(_, _, _), ParseArguments(_, _, _)
RECURSIVE ParseVariants(_, _, _), ParseElements(_, _, _)

\* The expression whose text starts at offset at.  A SelectExpression
\* starts where its selector starts; the arguments of a call start after
\* its "(".
ParseExpression(e, at, eol) ==
    LET end == at + Len(ExpressionText(e, eol))
    IN  IF e.kind = "SelectExpression"
        THEN [kind |-> e.kind, start |-> at, end |-> end,
              selector |-> ParseExpression(e.selector, at, eol),
              variants |-> ParseVariants(e.variants,
                               at + Len(ExpressionText(e.selector, eol)) + 3, eol)]
        ELSE [kind |-> e.kind, text |-> e.text, start |-> at, end |-> end,
              arguments |-> ParseArguments(e.arguments,
                                end - Len(ArgumentsText(e.arguments, eol)) - 1, eol)]

ParseArguments(as, at, eol) ==
    IF as = <<>> THEN <<>>
    ELSE <<ParseExpression(Head(as), at, eol)>>
         \o ParseArguments(Tail(as), at + Len(ExpressionText(Head(as), eol)) + 1, eol)

\* Variant nodes, the text of the first starting at offset at.
ParseVariants(vs, at, eol) ==
    IF vs = <<>> THEN <<>>
    ELSE LET v == Head(vs)
             value == at + Len(VariantHead(v, eol))
         IN  <<[key |-> v.key, value |-> ParseElements(v.value, value, eol)]>>
             \o ParseVariants(Tail(vs), value + Len(PatternText(v.value, eol)), eol)

\* Pattern.elements with their spans: a TextElement starts at its first
\* character, the expression of a placeable after the opening brace.
ParseElements(p, at, eol) ==
    IF p = <<>> THEN <<>>
    ELSE LET e == Head(p)
         IN  <<IF e.kind = "TextElement"
               THEN [kind |-> e.kind, text |-> e.text, start |-> at]
               ELSE ParseExpression(e, at + 1, eol)>>
             \o ParseElements(Tail(p), at + Len(ElementText(e, eol)), eol)

\* Attribute nodes: the span starts at the "." of the attribute and ends
\* with its value.
RECURSIVE ParseAttributes(_, _, _)
ParseAttributes(as, at, eol) ==
    IF as = <<>> THEN <<>>
    ELSE LET a == Head(as)
         IN  <<[name |-> a.name, start |-> at + Len(eol) + 1,
                end |-> at + Len(AttributeText(a, eol)),
                value |-> ParseElements(a.value, at + Len(eol) + 3 + Len(a.name),
                                        eol)]>>
             \o ParseAttributes(Tail(as), at + Len(AttributeText(a, eol)), eol)

\* One top-level entry.  span.end is the offset after the last character
\* of the entry, before the newlines that follow it; the span of a Junk
\* takes in the line ends up to the next entry.
ParseEntry(e, at, eol) ==
    [kind |-> e.kind, name |-> e.name, content |-> e.content,
     start |-> at,
     end |-> at + Len(EntryText(e, eol))
             + (IF e.kind = "Junk" THEN e.gap * Len(eol) ELSE 0),
     idstart |-> IF e.kind = "Term" THEN at + 1 ELSE at,
     hasValue |-> e.value # <<>>,
     value |-> IF e.kind \in CommentKinds THEN <<>>
               ELSE ParseElements(e.value, at + Len(EntryHead(e)), eol),
     attributes |-> IF e.kind \in CommentKinds THEN <<>>
                    ELSE ParseAttributes(e.attributes,
                             at + Len(EntryHead(e)) + Len(PatternText(e.value, eol)),
                             eol)]

RECURSIVE ParseEntries(_, _, _)
ParseEntries(es, at, eol) ==
    IF es = <<>> THEN <<>>
    ELSE <<ParseEntry(Head(es), at, eol)>>
         \o ParseEntries(Tail(es),
                at + Len(EntryText(Head(es), eol)) + Head(es).gap * Len(eol), eol)

\* parse(contents).body
ParseBody(f) == ParseEntries(f.entries, f.lead * Len(f.eol), f.eol)

\* What the parser makes of two neighbouring entries: entries end with a
\* line end, comments of one kind on consecutive lines are one comment, a
\* Comment on the line before a message or term is attached to it, and a
\* Junk runs on to the next line that can start an entry.
Separate(e1, e2) ==
    /\ e1.gap >= 1
    /\ ~(e1.kind = "Junk" /\ e2.kind = "Junk")
    /\ (e1.kind \in CommentKinds /\ e1.kind = e2.kind) => e1.gap >= 2
    /\ (e1.kind = "Comment" /\ e2.kind \in {"Message", "Term"}) => e1.gap >= 2

\* A message has a value or at least one attribute, a term has a value.
WellFormedEntry(e) ==
    /\ e.kind = "Message" => (e.value # <<>> \/ e.attributes # <<>>)
    /\ e.kind = "Term" => e.value # <<>>

WellFormedFile(f) ==
    /\ \A k \in 1..Len(f.entries) : WellFormedEntry(f.entries[k])
    /\ \A k \in 1..(Len(f.entries) - 1) : Separate(f.entries[k], f.entries[k + 1])

----------------------------------------------------------------------------
(* The position index and add_error. *)

\* get_offsets_and_lines: one (offset, line) pair per newline character.
RECURSIVE ScanNewlines(_, _, _)
ScanNewlines(c, k, line) ==
    IF k > Len(c) THEN <<>>
    ELSE IF c[k] = NL
         THEN <<[offset |-> k - 1, line |-> line]>> \o ScanNewlines(c, k + 1, line + 1)
         ELSE ScanNewlines(c, k + 1, line)

get_offsets_and_lines(c) == ScanNewlines(c, 1, 1)

\* Mutant: the insertion point after the pairs equal to (start, line).
bisect_right(a, start) == Cardinality({k \in 1..Len(a) : a[k].offset <= start})

\* bisect.bisect_left(offsets_and_lines, (start, 0)): the pairs that sort
\* before (start, 0) are those of the newlines at an offset below start.
bisect_left(a, start) == Cardinality({k \in 1..Len(a) : a[k].offset < start})

\* Whether span_to_line_and_col returns: offsets_and_lines[i] raises
\* IndexError when no newline is at or after start.
span_resolves(start) ==
    bisect_left(offsets_and_lines, start) < Len(offsets_and_lines)

span_to_line_and_col(start) ==
    LET a == offsets_and_lines
        i == bisect_left(a, start)
    IN  [col |-> IF i > 0 THEN start - a[i].offset ELSE 1 + start,
         line |-> a[i + 1].line]

\* The Linter of one file as a value: its state dictionary, ids, results,
\* and whether an exception is propagating out of the visit.
Linter ==
    [rc |-> node_can_be_resource_comment, gc |-> can_have_group_comment,
     ids |-> ids, results |-> results, raised |-> FALSE]

\* One entry of Linter.results: the rule, the resolved position, the file
\* and the part of the message that varies.
Diagnostic(rule, pos, msg) ==
    [rule |-> rule, line |-> pos.line, col |-> pos.col, file |-> path, msg |-> msg]

add_error(L, start, rule, msg) ==
    IF L.raised THEN L
    ELSE IF span_resolves(start)
         THEN [L EXCEPT !.results =
                   Append(@, Diagnostic(rule, span_to_line_and_col(start), msg))]
         ELSE [L EXCEPT !.raised = TRUE]

----------------------------------------------------------------------------
(* The configuration. *)

\* config = {}: no configuration file, or one without entries.
EmptyConfig == [rule \in {} |-> {}]

\* "R" in self.config and self.config["R"]["enabled"]
RuleEnabled(rule) == rule \in DOMAIN config /\ config[rule].enabled

\* Mutant: a construct without an entry counts as disabled.
ConstructDisabledByDefault(rule) == rule \notin DOMAIN config \/ config[rule].disabled

\* "R" in self.config and self.config["R"]["disabled"]
ConstructDisabled(rule) == rule \in DOMAIN config /\ config[rule].disabled

----------------------------------------------------------------------------
(* The regular expressions of Linter.__init__, on sequences of characters. *)

APOS == "'"
DQUOTE == "\""
\* U+2018, and the character "\1" that re.sub puts in place of a quoted span.
LSQUO == "LSQUO"
SOH == "SOH"

\* Mutant: the pattern is searched for in the name instead of matched
\* against the whole name.
identifier_re_search(name) ==
    \E k \in 1..Len(name) : name[k] \in LowerChars \cup DigitChars \cup {"-"}

\* identifier_re.fullmatch(name): [a-z0-9-]+
identifier_re_fullmatch(name) ==
    /\ Len(name) >= 1
    /\ \A k \in 1..Len(name) : name[k] \in LowerChars \cup DigitChars \cup {"-"}

\* The ends j of a match of q(.+)q that starts at i: "." is no newline.
QuotedEnds(s, q, i) ==
    {j \in (i + 2)..Len(s) :
        /\ s[i] = q /\ s[j] = q
        /\ \A m \in (i + 1)..(j - 1) : s[m] # NL}

QuotedStarts(s, q) == {i \in 1..Len(s) : QuotedEnds(s, q, i) # {}}

Min(S) == CHOOSE x \in S : \A y \in S : x <= y
Max(S) == CHOOSE x \in S : \A y \in S : x >= y

\* single_quote_re.search(text), double_quote_re.search(text)
single_quote_re_search(s) == QuotedStarts(s, APOS) # {}
double_quote_re_search(s) == QuotedStarts(s, DQUOTE) # {}

\* re.sub(single_quote_re, "\1", s): every match, leftmost first and greedy,
\* becomes the one character "\1".
RECURSIVE single_quote_re_sub(_)
single_quote_re_sub(s) ==
    IF QuotedStarts(s, APOS) = {} THEN s
    ELSE LET i == Min(QuotedStarts(s, APOS))
             j == Max(QuotedEnds(s, APOS, i))
         IN  SubSeq(s, 1, i - 1) \o <<SOH>>
             \o single_quote_re_sub(SubSeq(s, j + 1, Len(s)))

\* apostrophe_re.search(s): \w'
apostrophe_re_search(s) ==
    \E k \in 1..(Len(s) - 1) : s[k] \in WordChars /\ s[k + 1] = APOS

\* incorrect_apostrophe_re.search(s): \w, U+2018, \w
incorrect_apostrophe_re_search(s) ==
    \E k \in 1..(Len(s) - 2) :
        s[k] \in WordChars /\ s[k + 1] = LSQUO /\ s[k + 2] \in WordChars

\* ellipsis_re.search(s): \.\.\.
ellipsis_re_search(s) ==
    \E k \in 1..(Len(s) - 2) : s[k] = "." /\ s[k + 1] = "." /\ s[k + 2] = "."

----------------------------------------------------------------------------
(* The visitor.  Every operator takes the Linter value and returns it as   *)
(* the method leaves it; once an exception propagates nothing changes.     *)

\* Mutant: the flag says whether the node just visited is one that may
\* come before a resource comment.
generic_visit_forgets(L, node_name) ==
    IF L.raised THEN L
    ELSE [L EXCEPT !.rc = node_name \in {"Resource", "Span", "Comment"}]

\* The state update of Linter.generic_visit for a node of type node_name.
generic_visit(L, node_name) ==
    IF L.raised THEN L
    ELSE [L EXCEPT !.rc = @ /\ node_name \in {"Resource", "Span", "Comment"}]

\* str.find(c, i) and str.rfind(c, i): the first and the last offset at or
\* after i where s holds c, or -1.
Find(s, c, i) ==
    LET S == {k \in i..(Len(s) - 1) : s[k + 1] = c}
    IN  IF S = {} THEN -1 ELSE Min(S)

RFind(s, c, i) ==
    LET S == {k \in i..(Len(s) - 1) : s[k + 1] = c}
    IN  IF S = {} THEN -1 ELSE Max(S)

\* The characters of \s in the texts explored.
Whitespace == {" ", NL, CR}

\* html.unescape(s): a character reference becomes the character it names.
\* Of the references the explored texts can spell, "&period;" names ".";
\* every other "&" stays as written.
PeriodReference == <<"&", "p", "e", "r", "i", "o", "d", ";">>

RECURSIVE unescape(_)
unescape(s) ==
    IF s = <<>> THEN <<>>
    ELSE IF /\ Len(s) >= Len(PeriodReference)
            /\ SubSeq(s, 1, Len(PeriodReference)) = PeriodReference
         THEN <<".">> \o unescape(SubSeq(s, Len(PeriodReference) + 1, Len(s)))
         ELSE <<Head(s)>> \o unescape(Tail(s))

\* HTMLParser.check_for_whole_start_tag from offset k inside a start tag:
\* the offset after the ">" that ends the tag, a ">" inside a quoted
\* attribute value (quote is its opening quote) not counting, or -1 when
\* the tag is not complete.
RECURSIVE check_for_whole_start_tag(_, _, _)
check_for_whole_start_tag(raw, k, quote) ==
    IF k >= Len(raw) THEN -1
    ELSE IF quote # ""
         THEN check_for_whole_start_tag(raw, k + 1,
                                        IF raw[k + 1] = quote THEN "" ELSE quote)
    ELSE IF raw[k + 1] = ">" THEN k + 1
    ELSE IF raw[k + 1] \in {APOS, DQUOTE} /\ raw[k] = "="
         THEN check_for_whole_start_tag(raw, k + 1, raw[k + 1])
    ELSE check_for_whole_start_tag(raw, k + 1, "")

\* HTMLParser.parse_starttag and parse_endtag at the "<" at offset i: the
\* offset after the tag, or -1.
parse_starttag(raw, i) == check_for_whole_start_tag(raw, i + 1, "")

parse_endtag(raw, i) ==
    LET gtpos == Find(raw, ">", i + 1) IN IF gtpos < 0 THEN -1 ELSE gtpos + 1

\* HTMLParser.goahead(end = False) with convert_charrefs from offset i, data
\* being the runs handed to handle_data so far.  Without a further "<" the
\* rest is data, unless an "&" near the end is followed by no whitespace
\* or ";": then the parser waits for more text and the rest is never
\* handed over, since feed() is called once and close() never.
RECURSIVE goahead(_, _, _)
goahead(raw, i, data) ==
    LET n == Len(raw)
        lt == Find(raw, "<", i)
        amppos == RFind(raw, "&", IF i > n - 34 THEN i ELSE n - 34)
        waits == /\ lt < 0 /\ amppos >= 0
                 /\ \A k \in amppos..(n - 1) : raw[k + 1] \notin Whitespace \cup {";"}
        j == IF lt < 0 THEN n ELSE lt
        data1 == IF i < j THEN Append(data, unescape(SubSeq(raw, i + 1, j))) ELSE data
    IN  IF i >= n \/ waits THEN data
        ELSE IF j = n THEN data1
        ELSE IF j + 1 < n /\ raw[j + 2] \in LowerChars \cup UpperChars
             THEN LET k == parse_starttag(raw, j)
                  IN  IF k < 0 THEN data1 ELSE goahead(raw, k, data1)
        ELSE IF j + 1 < n /\ raw[j + 2] = "/"
             THEN LET k == parse_endtag(raw, j)
                  IN  IF k < 0 THEN data1 ELSE goahead(raw, k, data1)
        ELSE IF j + 1 < n THEN goahead(raw, j + 1, Append(data1, <<"<">>))
        ELSE data1

\* TextElementHTMLParser: parser.feed(value), then parser.extracted_text.
extracted_text(value) == goahead(value, 0, <<>>)

\* The body of the loop of visit_TextElement for one extracted text.
TextChecks(L, e, text) ==
    LET cleaned_str == single_quote_re_sub(e.text)
        L1 == IF apostrophe_re_search(cleaned_str)
              THEN add_error(L, e.start, "TE01", <<>>) ELSE L
        L2 == IF incorrect_apostrophe_re_search(text)
              THEN add_error(L1, e.start, "TE02", <<>>) ELSE L1
        L3 == IF single_quote_re_search(text)
              THEN add_error(L2, e.start, "TE03", <<>>) ELSE L2
        L4 == IF double_quote_re_search(text)
              THEN add_error(L3, e.start, "TE04", <<>>) ELSE L3
    IN  IF ellipsis_re_search(text)
        THEN add_error(L4, e.start, "TE05", <<>>) ELSE L4

RECURSIVE TextLoop(_, _, _)
TextLoop(L, e, texts) ==
    IF texts = <<>> THEN L
    ELSE TextLoop(TextChecks(L, e, Head(texts)), e, Tail(texts))

visit_TextElement(L, e) == TextLoop(L, e, extracted_text(e.text))

ID01Applies(name) ==
    /\ RuleEnabled("ID01")
    /\ path \notin config["ID01"].exclusions.files
    /\ name \notin config["ID01"].exclusions.messages
    /\ ~identifier_re_fullmatch(name)

\* Mutant: a name of exactly min_length characters counts as too short.
ID02AppliesUpTo(name) ==
    /\ RuleEnabled("ID02")
    /\ Len(name) <= config["ID02"].min_length
    /\ path \notin config["ID02"].exclusions.files
    /\ name \notin config["ID02"].exclusions.messages

ID02Applies(name) ==
    /\ RuleEnabled("ID02")
    /\ Len(name) < config["ID02"].min_length
    /\ path \notin config["ID02"].exclusions.files
    /\ name \notin config["ID02"].exclusions.messages

visit_Identifier(L, name, start) ==
    LET L1 == IF ID01Applies(name) THEN add_error(L, start, "ID01", <<>>) ELSE L
    IN  IF ID02Applies(name)
        THEN add_error(L1, start, "ID02", <<config["ID02"].min_length>>) ELSE L1

\* Mutant: the identifier of a message reference is visited.
visit_MessageReference_descends(L, e) ==
    visit_Identifier(
        IF ConstructDisabled("SY02") THEN add_error(L, e.start, "SY02", <<>>) ELSE L,
        e.text, e.start)

visit_MessageReference(L, e) ==
    IF ConstructDisabled("SY02") THEN add_error(L, e.start, "SY02", <<>>) ELSE L

visit_TermReference(L, e) ==
    IF ConstructDisabled("SY03") THEN add_error(L, e.start, "SY03", <<>>) ELSE L

visit_FunctionReference(L, e) == L

visit_VariableReference(L, e) == L

RECURSIVE VisitElements(_, _), VisitVariants(_, _)

\* Visitor.generic_visit(pattern), the superclass method: the span of the
\* pattern and its elements, without the state update of the subclass.
VisitorGenericVisitPattern(L, es) == VisitElements(generic_visit(L, "Span"), es)

\* The loop of visit_SelectExpression over the values of the variants.
VisitVariants(L, vs) ==
    IF vs = <<>> THEN L
    ELSE VisitVariants(VisitorGenericVisitPattern(L, Head(vs).value), Tail(vs))

\* Mutant: the variants are visited after SY04 has been reported.
visit_SelectExpression_descends(L, e) ==
    IF e.variants # <<>> /\ ConstructDisabled("SY04")
    THEN VisitVariants(add_error(L, e.start, "SY04", <<>>), e.variants)
    ELSE VisitVariants(L, e.variants)

visit_SelectExpression(L, e) ==
    IF e.variants # <<>> /\ ConstructDisabled("SY04")
    THEN add_error(L, e.start, "SY04", <<>>)
    ELSE VisitVariants(L, e.variants)

\* Visitor.visit of one element of a pattern: a TextElement, or a Placeable,
\* which has no method of its own and goes through Linter.generic_visit to
\* its span and its expression.
VisitElement(L, e) ==
    IF e.kind = "TextElement" THEN visit_TextElement(L, e)
    ELSE LET L1 == generic_visit(generic_visit(L, "Placeable"), "Span")
         IN  CASE e.kind = "MessageReference" -> visit_MessageReference(L1, e)
               [] e.kind = "TermReference" -> visit_TermReference(L1, e)
               [] e.kind = "FunctionReference" -> visit_FunctionReference(L1, e)
               [] e.kind = "VariableReference" -> visit_VariableReference(L1, e)
               [] e.kind = "SelectExpression" -> visit_SelectExpression(L1, e)

VisitElements(L, es) ==
    IF es = <<>> THEN L ELSE VisitElements(VisitElement(L, Head(es)), Tail(es))

\* Visitor.visit(pattern): Linter.generic_visit, then the children.
VisitPattern(L, es) == VisitorGenericVisitPattern(generic_visit(L, "Pattern"), es)

\* Mutant: the identifier of an attribute is visited before its value.
visit_Attribute_checks_identifier(L, a) ==
    IF ConstructDisabled("SY05") THEN add_error(L, a.start, "SY05", <<>>)
    ELSE VisitorGenericVisitPattern(visit_Identifier(L, a.name, a.start + 1), a.value)

visit_Attribute(L, a) ==
    IF ConstructDisabled("SY05") THEN add_error(L, a.start, "SY05", <<>>)
    ELSE VisitorGenericVisitPattern(L, a.value)

RECURSIVE VisitAttributes(_, _)
VisitAttributes(L, as) ==
    IF as = <<>> THEN L ELSE VisitAttributes(visit_Attribute(L, Head(as)), Tail(as))

\* Mutant: the attributes are visited before the value.
VisitorGenericVisitEntry_attributes_first(L, node) ==
    LET L1 == generic_visit(L, "Span")
        L2 == visit_Identifier(L1, node.name, node.idstart)
        L3 == VisitAttributes(L2, node.attributes)
    IN  IF node.hasValue THEN VisitPattern(L3, node.value) ELSE L3

\* Visitor.generic_visit(node) for a Message or Term, the superclass method:
\* the attributes of the node in the order of its constructor: span, id,
\* value, attributes (comment is None here).
VisitorGenericVisitEntry(L, node) ==
    LET L1 == generic_visit(L, "Span")
        L2 == visit_Identifier(L1, node.name, node.idstart)
        L3 == IF node.hasValue THEN VisitPattern(L2, node.value) ELSE L2
    IN  VisitAttributes(L3, node.attributes)

\* Mutant: a term does not end the wait for a message after a group comment.
visit_Term_keeps_pending(L, node) ==
    LET L2 == IF ConstructDisabled("SY01")
              THEN add_error(L, node.start, "SY01", <<>>) ELSE L
    IN  VisitorGenericVisitEntry(L2, node)

visit_Term(L, node) ==
    LET L1 == [L EXCEPT !.gc = TRUE]
        L2 == IF ConstructDisabled("SY01")
              THEN add_error(L1, node.start, "SY01", <<>>) ELSE L1
    IN  VisitorGenericVisitEntry(L2, node)

\* Mutant: the identifier of a message is never recorded.
visit_Message_never_records(L, node) ==
    LET L1 == [L EXCEPT !.gc = TRUE]
        L2 == IF InSeq(node.name, L1.ids)
              THEN add_error(L1, node.start, "MI01", node.name)
              ELSE L1
    IN  VisitorGenericVisitEntry(L2, node)

visit_Message(L, node) ==
    LET L1 == [L EXCEPT !.gc = TRUE]
        L2 == IF InSeq(node.name, L1.ids)
              THEN add_error(L1, node.start, "MI01", node.name)
              ELSE [L1 EXCEPT !.ids = Append(@, node.name)]
    IN  VisitorGenericVisitEntry(L2, node)

----------------------------------------------------------------------------
(* Comments. *)

\* The loop of get_newlines_count_after from offset i: the newlines counted.
RECURSIVE CountAfter(_, _)
CountAfter(c, i) ==
    IF i >= Len(c) \/ c[i + 1] # NL THEN 0 ELSE 1 + CountAfter(c, i + 1)

get_newlines_count_after(end, c) == CountAfter(c, end)

\* Its assertion fails on a carriage return at the offset where it stops.
newlines_after_asserts(end, c) ==
    LET stop == end + CountAfter(c, end)
    IN  stop < Len(c) /\ c[stop + 1] = CR

\* The loop of get_newlines_count_before: range(start - 1, 0, -1) runs from
\* offset start - 1 down to offset 1.
RECURSIVE CountBefore(_, _)
CountBefore(c, i) ==
    IF i <= 0 \/ c[i + 1] # NL THEN 0 ELSE 1 + CountBefore(c, i - 1)

get_newlines_count_before(start, c) == CountBefore(c, start - 1)

newlines_before_asserts(start, c) ==
    LET stop == start - 1 - CountBefore(c, start - 1)
    IN  stop > 0 /\ c[stop + 1] = CR

\* lines_after and lines_before are computed first; either may raise.
NewlineCountsRaise(node) ==
    \/ newlines_after_asserts(node.end, contents)
    \/ newlines_before_asserts(node.start, contents)

visit_ResourceComment(L, node) ==
    IF ~L.rc THEN add_error(L, node.start, "RC01", <<>>)
    ELSE IF NewlineCountsRaise(node) THEN [L EXCEPT !.raised = TRUE]
    ELSE LET lines_after == get_newlines_count_after(node.end, contents)
             lines_before == get_newlines_count_before(node.start, contents)
         IN  IF node.end = Len(contents) - 1 THEN L
             ELSE IF lines_after # 2 THEN add_error(L, node.start, "RC02", <<>>)
             ELSE IF lines_before # 2 THEN add_error(L, node.start, "RC03", <<>>)
             ELSE L

visit_GroupComment(L, node) ==
    IF ~L.gc THEN add_error(L, node.start, "GC04", <<>>)
    ELSE LET L1 == [L EXCEPT !.gc = FALSE]
         IN  IF NewlineCountsRaise(node) THEN [L1 EXCEPT !.raised = TRUE]
             ELSE LET lines_after == get_newlines_count_after(node.end, contents)
                      lines_before == get_newlines_count_before(node.start, contents)
                  IN  IF node.end = Len(contents) - 1
                      THEN IF node.content = <<>> THEN L1
                           ELSE add_error(L1, node.start, "GC01", <<>>)
                      ELSE IF lines_after # 2
                           THEN add_error(L1, node.start, "GC02", <<>>)
                      ELSE IF lines_before # 2
                           THEN add_error(L1, node.start, "GC03", <<>>)
                      ELSE L1

\* A Comment has no method of its own: Linter.generic_visit, then its span.
visit_Comment(L, node) == generic_visit(generic_visit(L, "Comment"), "Span")

\* Nor has a Junk: Linter.generic_visit, then its span and its annotation
\* with the span of the annotation.
visit_Junk(L, node) ==
    generic_visit(generic_visit(
        generic_visit(generic_visit(L, "Junk"), "Span"), "Annotation"), "Span")

----------------------------------------------------------------------------
(* The walk of one file: linter.visit(parse(contents)). *)

\* The Linter after a step; an exception leaves lint() without a result.
Commit(L) ==
    /\ node_can_be_resource_comment' = L.rc
    /\ can_have_group_comment' = L.gc
    /\ ids' = L.ids
    /\ results' = L.results
    /\ pc' = IF L.raised THEN "raised" ELSE "visit"
    /\ UNCHANGED <<env, previous, pending, lint_results, output, exit_code, path, config,
                   contents, offsets_and_lines, body>>

\* The next top-level entry is of this kind.
NextIs(kind) == pc = "visit" /\ idx < Len(body) /\ body[idx + 1].kind = kind

Advance(L) == idx' = IF L.raised THEN idx ELSE idx + 1

\* The root: Linter.generic_visit(Resource), its span, then its body.
VisitResource ==
    /\ pc = "start"
    /\ Commit(generic_visit(generic_visit(Linter, "Resource"), "Span"))
    /\ idx' = 0

VisitMessage ==
    /\ NextIs("Message")
    /\ LET L == visit_Message(Linter, body[idx + 1]) IN Commit(L) /\ Advance(L)

VisitTerm ==
    /\ NextIs("Term")
    /\ LET L == visit_Term(Linter, body[idx + 1]) IN Commit(L) /\ Advance(L)

VisitResourceComment ==
    /\ NextIs("ResourceComment")
    /\ LET L == visit_ResourceComment(Linter, body[idx + 1])
       IN  Commit(L) /\ Advance(L)

VisitGroupComment ==
    /\ NextIs("GroupComment")
    /\ LET L == visit_GroupComment(Linter, body[idx + 1])
       IN  Commit(L) /\ Advance(L)

VisitComment ==
    /\ NextIs("Comment")
    /\ LET L == visit_Comment(Linter, body[idx + 1]) IN Commit(L) /\ Advance(L)

VisitJunk ==
    /\ NextIs("Junk")
    /\ LET L == visit_Junk(Linter, body[idx + 1]) IN Commit(L) /\ Advance(L)

\* linter.visit returns and lint() takes linter.results.
Return ==
    /\ pc = "visit" /\ idx = Len(body)
    /\ pc' = "returned"
    /\ lint_results' = lint_results \o results
    /\ UNCHANGED <<env, previous, pending, output, exit_code, path, config, contents, offsets_and_lines, body,
                   idx, node_can_be_resource_comment, can_have_group_comment,
                   ids, results>>

----------------------------------------------------------------------------
(* The run: main() and lint(). *)

\* The paths a folder can hold, from the least to the greatest as Python
\* compares strings, and those that end in ".ftl".
Paths == <<"a.ftl", "b.ftl", "c.txt">>
FtlPaths == {"a.ftl", "b.ftl"}

\* p < q on paths.
Before(p, q) ==
    \E m, n \in 1..Len(Paths) : Paths[m] = p /\ Paths[n] = q /\ m < n

\* Mutant: every path is put at the front of the list.
Insert_at_front(p, list) == <<p>> \o list

\* file_list.sort()
RECURSIVE Insert(_, _)
Insert(p, list) ==
    IF list = <<>> THEN <<p>>
    ELSE IF Before(Head(list), p) THEN <<Head(list)>> \o Insert(p, Tail(list))
    ELSE <<p>> \o list

RECURSIVE Sorted(_)
Sorted(list) == IF list = <<>> THEN <<>> ELSE Insert(Head(list), Sorted(Tail(list)))

\* The orders in which os.walk can yield the files of a folder.
WalkOrders(folder) ==
    {w \in [1..Cardinality(DOMAIN folder) -> DOMAIN folder] :
        \A m, n \in DOMAIN w : w[m] = w[n] => m = n}

\* The files os.walk yields, in its order, that end in ".ftl"; os.walk of a
\* folder that does not exist yields nothing.
Walked ==
    LET listed(p) == env.root_exists /\ p \in FtlPaths
    IN  SelectSeq(env.walk, listed)

\* Mutant: the list is returned in the order of the walk.
get_file_list_unsorted == Walked

\* get_file_list(root_folder)
get_file_list == Sorted(Walked)

\* A line of output that is not a diagnostic.
Printed(text) == [text |-> text]
ConfigNotFound == Printed("Configuration file not found")
NoErrorsFound == Printed("No errors found.")

\* Mutant: the Linter of the previous file is used again for the next one.
NewLinter_reused(p) ==
    /\ path' = p
    /\ contents' = FileText(env.folder[p])
    /\ offsets_and_lines' = get_offsets_and_lines(FileText(env.folder[p]))
    /\ body' = ParseBody(env.folder[p])
    /\ pc' = "start"
    /\ idx' = 0
    /\ results' = <<>>
    /\ UNCHANGED <<node_can_be_resource_comment, can_have_group_comment, ids>>

\* contents = open(path).read() and Linter(path, root_folder, config,
\* contents, get_offsets_and_lines(contents)) for the file at p.
NewLinter(p) ==
    /\ path' = p
    /\ contents' = FileText(env.folder[p])
    /\ offsets_and_lines' = get_offsets_and_lines(FileText(env.folder[p]))
    /\ body' = ParseBody(env.folder[p])
    /\ pc' = "start"
    /\ idx' = 0
    /\ node_can_be_resource_comment' = TRUE
    /\ can_have_group_comment' = TRUE
    /\ ids' = <<>>
    /\ results' = <<>>

\* lint() up to the Linter of the first file: the list of files, the
\* warning when a configuration file was named and is missing, and the
\* configuration, {} when there is no file to load.
Lint ==
    /\ pc = "main"
    /\ config' = IF env.config_exists THEN env.config_file ELSE EmptyConfig
    /\ output' = IF env.config_given /\ ~env.config_exists
                 THEN Append(output, ConfigNotFound) ELSE output
    /\ lint_results' = <<>>
    /\ IF get_file_list = <<>>
       THEN /\ pc' = "linted"
            /\ pending' = <<>>
            /\ UNCHANGED <<path, contents, offsets_and_lines, body, idx,
                           node_can_be_resource_comment, can_have_group_comment,
                           ids, results>>
       ELSE /\ NewLinter(Head(get_file_list))
            /\ pending' = Tail(get_file_list)
    /\ UNCHANGED <<env, previous, exit_code>>

\* The next turn of the loop over the files.
NextFile ==
    /\ pc = "returned" /\ pending # <<>>
    /\ NewLinter(Head(pending))
    /\ pending' = Tail(pending)
    /\ UNCHANGED <<env, previous, lint_results, output, exit_code, config>>

\* Mutant: the diagnostics are printed and the process ends normally.
Report_exits_with_zero ==
    /\ pc \in {"returned", "linted"} /\ pending = <<>>
    /\ pc' = "exited"
    /\ output' = output \o (IF lint_results # <<>> THEN lint_results
                             ELSE <<NoErrorsFound>>)
    /\ UNCHANGED <<env, previous, pending, lint_results, exit_code, path, config, contents, offsets_and_lines,
                   body, idx, node_can_be_resource_comment, can_have_group_comment,
                   ids, results>>

\* Mutant: nothing is printed when there is no diagnostic.
Report_silent_without_results ==
    /\ pc \in {"returned", "linted"} /\ pending = <<>>
    /\ pc' = "exited"
    /\ output' = output \o lint_results
    /\ exit_code' = IF lint_results # <<>> THEN 1 ELSE exit_code
    /\ UNCHANGED <<env, previous, pending, lint_results, path, config, contents, offsets_and_lines, body, idx,
                   node_can_be_resource_comment, can_have_group_comment, ids,
                   results>>

\* lint() returns and main() reports: every result is printed and the
\* process exits with 1, or "No errors found." is printed and main() ends.
Report ==
    /\ pc \in {"returned", "linted"} /\ pending = <<>>
    /\ pc' = "exited"
    /\ IF lint_results # <<>>
       THEN output' = output \o lint_results /\ exit_code' = 1
       ELSE output' = Append(output, NoErrorsFound) /\ exit_code' = exit_code
    /\ UNCHANGED <<env, previous, pending, lint_results, path, config, contents, offsets_and_lines, body, idx,
                   node_can_be_resource_comment, can_have_group_comment, ids,
                   results>>

\* An exception leaves lint() and main(): the interpreter writes the
\* traceback to the error stream and exits with 1.
Uncaught ==
    /\ pc = "raised"
    /\ pc' = "aborted"
    /\ exit_code' = 1
    /\ UNCHANGED <<env, previous, pending, lint_results, output, path, config, contents, offsets_and_lines,
                   body, idx, node_can_be_resource_comment, can_have_group_comment,
                   ids, results>>

\* The program is run again on the same folder and configuration: a new
\* process, to which os.walk may give the files in another order.
Rerun ==
    /\ pc = "exited" /\ env.again /\ previous = <<>>
    /\ previous' = <<[walk |-> env.walk, results |-> lint_results,
                      output |-> output]>>
    /\ \E walk \in WalkOrders(env.folder) : env' = [env EXCEPT !.walk = walk]
    /\ pending' = <<>>
    /\ lint_results' = <<>>
    /\ output' = <<>>
    /\ exit_code' = 0
    /\ path' = ""
    /\ config' = EmptyConfig
    /\ contents' = <<>>
    /\ offsets_and_lines' = <<>>
    /\ body' = <<>>
    /\ pc' = "main"
    /\ idx' = 0
    /\ node_can_be_resource_comment' = TRUE
    /\ can_have_group_comment' = TRUE
    /\ ids' = <<>>
    /\ results' = <<>>

Next ==
    \/ Lint
    \/ NextFile
    \/ Report
    \/ Uncaught
    \/ Rerun
    \/ VisitResource
    \/ VisitMessage
    \/ VisitTerm
    \/ VisitResourceComment
    \/ VisitGroupComment
    \/ VisitComment
    \/ VisitJunk
    \/ Return

----------------------------------------------------------------------------
(* The inputs: the files and configurations the walk is explored on. *)

\* The one file of the run, and the exclusion lists a rule can carry.
FilePath == "a.ftl"
FileExclusions == {{}, {FilePath}}

\* Identifiers: "ok" and "no" are short, "No" is short and not lowercase.
IdOk == <<"o", "k">>
IdNo == <<"n", "o">>
IdBad == <<"N", "o">>
IdAbc == <<"a", "b", "c">>
IdNames == {IdOk, IdNo, IdBad, IdAbc}
MessageExclusions == {{}, {IdOk, IdBad}}

Text(t) == [kind |-> "TextElement", text |-> t]
Reference(kind, name) ==
    [kind |-> kind, text |-> name, attribute |-> <<>>, arguments |-> <<>>]
PlainValue == <<Text(<<"v">>)>>

Entry(kind, name, value, attributes, content, gap) ==
    [kind |-> kind, name |-> name, value |-> value, attributes |-> attributes,
     content |-> content, gap |-> gap]

\* Every sequence of 0..n entries drawn from S that the parser accepts,
\* after lead newlines, with "\n" as line end.
FilesOf(S, n, lead) ==
    {f \in [lead : {lead}, eol : {<<NL>>},
            entries : UNION {[1..m -> S] : m \in 0..n}] :
        WellFormedFile(f)}

\* Files whose blank lines vary: a message and the three kinds of comment,
\* the group comment with and without content.
LayoutEntries ==
    {Entry(k[1], k[2], k[3], <<>>, k[4], gap) :
        k \in {<<"Message", <<"m">>, PlainValue, <<>>>>,
               <<"ResourceComment", <<>>, <<>>, <<"r">>>>,
               <<"GroupComment", <<>>, <<>>, <<"g">>>>,
               <<"GroupComment", <<>>, <<>>, <<>>>>,
               <<"Comment", <<>>, <<>>, <<"c">>>>},
        gap \in 0..MaxGap}

LayoutFiles == UNION {FilesOf(LayoutEntries, MaxEntries, lead) : lead \in 0..MaxLead}

\* Files whose entries are one blank line apart and end with one newline:
\* messages with a value or with attributes only, terms and comments.
SeqEntries ==
    {Entry(k[1], k[2], k[3], k[4], k[5], gap) :
        gap \in 1..2,
        k \in {<<"Message", <<"m">>, PlainValue, <<>>, <<>>>>,
               <<"Message", <<"m">>, <<>>, <<[name |-> <<"a">>, value |-> PlainValue]>>, <<>>>>,
               <<"Term", <<"t">>, PlainValue, <<>>, <<>>>>,
               <<"ResourceComment", <<>>, <<>>, <<>>, <<"r">>>>,
               <<"GroupComment", <<>>, <<>>, <<>>, <<"g">>>>,
               <<"Comment", <<>>, <<>>, <<>>, <<"c">>>>}}

SeqFiles ==
    {f \in FilesOf(SeqEntries, MaxSeqEntries, 0) :
        \A k \in 1..Len(f.entries) :
            f.entries[k].gap = IF k = Len(f.entries) THEN 1 ELSE 2}

\* The same files saved with "\r\n" as line end.
CrlfFiles == {[f EXCEPT !.eol = <<CR, NL>>] : f \in SeqFiles}

\* Files whose identifiers vary: messages and terms on consecutive lines.
IdEntries ==
    {Entry(kind, name, PlainValue, <<>>, <<>>, 1) :
        kind \in {"Message", "Term"}, name \in IdNames}

IdFiles == FilesOf(IdEntries, MaxIdEntries, 0)

\* Files of one message or term whose value and attributes vary.
RefName == <<"N">>
RefValues ==
    {<<>>, PlainValue, <<Text(<<".", ".", ".">>)>>}
    \cup {<<Reference(kind, RefName)>> : kind \in ReferenceKinds}
RefAttributes ==
    [name : {IdAbc, RefName},
     value : {PlainValue} \cup {<<Reference(kind, RefName)>> : kind \in ReferenceKinds}]
RefEntries ==
    {Entry(kind, IdAbc, value, attributes, <<>>, 1) :
        kind \in {"Message", "Term"}, value \in RefValues,
        attributes \in UNION {[1..m -> RefAttributes] : m \in 0..MaxAttrs}}
RefFiles == FilesOf(RefEntries, 1, 0)

\* Files of one message whose value or attribute holds a call with an
\* argument, or a select expression: two variants after a variable, one
\* after the attribute of a term, or a select expression in a variant.
Call(kind, name, arguments) == [Reference(kind, name) EXCEPT !.arguments = arguments]
Variant(key, default, value) == [key |-> key, default |-> default, value |-> value]
Select(selector, variants) ==
    [kind |-> "SelectExpression", selector |-> selector, variants |-> variants]
SelInner ==
    {PlainValue, <<Text(<<".", ".", ".">>)>>,
     <<Reference("MessageReference", RefName)>>, <<Reference("TermReference", RefName)>>}
SelVariable == Reference("VariableReference", RefName)
SelPatterns ==
    SelInner
    \cup {<<Call(k[1], RefName, <<Reference(k[2], RefName)>>)>> :
              k \in {<<"FunctionReference", "TermReference">>,
                     <<"FunctionReference", "MessageReference">>,
                     <<"TermReference", "TermReference">>}}
    \cup {<<Select(SelVariable, <<Variant(<<"a">>, FALSE, p), Variant(<<"b">>, TRUE, q)>>)>> :
              p \in SelInner, q \in SelInner}
    \cup {<<Select([Reference("TermReference", RefName) EXCEPT !.attribute = <<"a">>],
                   <<Variant(<<"b">>, TRUE, PlainValue)>>)>>}
    \cup {<<Select(SelVariable,
                   <<Variant(<<"b">>, TRUE,
                             <<Select(SelVariable, <<Variant(<<"b">>, TRUE, p)>>)>>)>>)>> :
              p \in SelInner \ {PlainValue}}
SelEntries ==
    {Entry("Message", IdAbc, value, <<>>, <<>>, 1) : value \in SelPatterns}
    \cup {Entry("Message", IdAbc, value, <<[name |-> <<"a">>, value |-> p]>>, <<>>, 1) :
              value \in {PlainValue,
                         <<Select(SelVariable,
                                  <<Variant(<<"a">>, FALSE, <<Text(<<".", ".", ".">>)>>),
                                    Variant(<<"b">>, TRUE,
                                            <<Reference("TermReference", RefName)>>)>>)>>},
              p \in SelPatterns}
SelFiles == FilesOf(SelEntries, 1, 0)

\* Files with a syntax error: a line that is no entry, among a message and
\* comments on consecutive lines.
JunkEntries ==
    {Entry(k[1], k[2], k[3], <<>>, k[4], 1) :
        k \in {<<"Junk", <<>>, <<>>, <<"?">>>>,
               <<"Message", <<"m">>, PlainValue, <<>>>>,
               <<"ResourceComment", <<>>, <<>>, <<"r">>>>,
               <<"GroupComment", <<>>, <<>>, <<"g">>>>}}
JunkFiles ==
    {f \in FilesOf(JunkEntries, MaxEntries, 0) :
        \E k \in 1..Len(f.entries) : f.entries[k].kind = "Junk"}

\* Files of one message whose value is a text of up to MaxPieces pieces:
\* letters, quotes, periods, tags, an ampersand and a character reference.
TextPieces ==
    {<<"a">>, <<APOS>>, <<DQUOTE>>, <<LSQUO>>, <<".", ".", ".">>, <<"&">>, <<";">>,
     PeriodReference, <<"<", "b", ">">>, <<"<", "/", "b", ">">>,
     <<"<", "b", " ", "t", "=", DQUOTE, "a", APOS, "a", DQUOTE, ">">>}

RECURSIVE Concat(_)
Concat(ss) == IF ss = <<>> THEN <<>> ELSE Head(ss) \o Concat(Tail(ss))

TextValues == {Concat(t) : t \in UNION {[1..n -> TextPieces] : n \in 1..MaxPieces}}
TextEntries == {Entry("Message", <<"m">>, <<Text(v)>>, <<>>, <<>>, 1) : v \in TextValues}
TextFiles == FilesOf(TextEntries, 1, 0)

\* The entry of an identifier rule, and of a construct rule.
IdRule(enabled, files, messages) ==
    [enabled |-> enabled, exclusions |-> [files |-> files, messages |-> messages]]
IdRules ==
    {IdRule(FALSE, {}, {})}
    \cup {IdRule(TRUE, files, messages) :
              files \in FileExclusions, messages \in MessageExclusions}
LengthRules == {r @@ ("min_length" :> n) : r \in IdRules, n \in 2..MaxMinLength}

\* Configurations with any of ID01 and ID02 present.
IdConfigs ==
    {EmptyConfig}
    \cup {("ID01" :> r1) : r1 \in IdRules}
    \cup {("ID02" :> r2) : r2 \in LengthRules}
    \cup {("ID01" :> r1) @@ ("ID02" :> r2) : r1 \in IdRules, r2 \in LengthRules}

ConstructRules == {"SY01", "SY02", "SY03", "SY05"}

\* Configurations with both identifier rules enabled and the constructs in
\* D disabled.
RefConfigs ==
    {EmptyConfig}
    \cup {("ID01" :> IdRule(TRUE, {}, {}))
          @@ ("ID02" :> (IdRule(TRUE, {}, {}) @@ ("min_length" :> MaxMinLength)))
          @@ [rule \in ConstructRules |-> [disabled |-> rule \in D]] :
              D \in SUBSET ConstructRules}

\* Configurations that disable any of the references, the variants and the
\* attributes.
SelRules == {"SY02", "SY03", "SY04", "SY05"}
SelConfigs == {[rule \in SelRules |-> [disabled |-> rule \in D]] : D \in SUBSET SelRules}

\* Runs over folders of up to two .ftl files and a file of another kind:
\* a file without diagnostics, a file with one, and a file whose walk
\* raises; the root folder may be missing, and the configuration file may
\* be named or not, and exist or not.
CleanFile ==
    [lead |-> 0, eol |-> <<NL>>,
     entries |-> <<Entry("Message", <<"m">>, PlainValue, <<>>, <<>>, 1)>>]
NoisyFile ==
    [lead |-> 0, eol |-> <<NL>>,
     entries |-> <<Entry("GroupComment", <<>>, <<>>, <<>>, <<"g">>, 1)>>]
BrokenFile ==
    [lead |-> 0, eol |-> <<NL>>,
     entries |-> <<Entry("GroupComment", <<>>, <<>>, <<>>, <<>>, 0)>>]
Folders ==
    UNION {[D -> {CleanFile, NoisyFile, BrokenFile}] :
               D \in SUBSET {Paths[n] : n \in 1..Len(Paths)}}
NoFolder == [p \in {} |-> CleanFile]

\* What a run is given: the root folder, a configuration file named or
\* not, the configuration file there is, and whether the program is run a
\* second time.
Environment(root_exists, folder, walk, config_given, config_exists, config_file, again) ==
    [root_exists |-> root_exists, folder |-> folder, walk |-> walk,
     config_given |-> config_given, config_exists |-> config_exists,
     config_file |-> config_file, again |-> again]

Runs ==
    UNION {{Environment(TRUE, folder, walk, given, exists, EmptyConfig, TRUE) :
                walk \in WalkOrders(folder), given \in BOOLEAN, exists \in BOOLEAN} :
           folder \in Folders}
    \cup {Environment(FALSE, NoFolder, <<>>, given, exists, EmptyConfig, TRUE) :
              given \in BOOLEAN, exists \in BOOLEAN}

\* The state when main() calls lint().
InitOfRun(e) ==
    /\ env = e
    /\ previous = <<>>
    /\ pending = <<>>
    /\ lint_results = <<>>
    /\ output = <<>>
    /\ exit_code = 0
    /\ path = ""
    /\ config = EmptyConfig
    /\ contents = <<>>
    /\ offsets_and_lines = <<>>
    /\ body = <<>>
    /\ pc = "main"
    /\ idx = 0
    /\ node_can_be_resource_comment = TRUE
    /\ can_have_group_comment = TRUE
    /\ ids = <<>>
    /\ results = <<>>

\* A run over a folder that holds the one file f, with c in the
\* configuration file next to the script.
InitOf(f, c) ==
    InitOfRun(Environment(TRUE, (FilePath :> f), <<FilePath>>, FALSE, TRUE, c,
                          FALSE))

Init ==
    \/ \E f \in LayoutFiles \cup SeqFiles \cup CrlfFiles \cup TextFiles \cup JunkFiles :
           InitOf(f, EmptyConfig)
    \/ \E f \in IdFiles, c \in IdConfigs : InitOf(f, c)
    \/ \E f \in RefFiles, c \in RefConfigs : InitOf(f, c)
    \/ \E f \in SelFiles, c \in SelConfigs : InitOf(f, c)
    \/ \E e \in Runs : InitOfRun(e)

Spec == Init /\ [][Next]_vars

----------------------------------------------------------------------------
(* What the claims speak of. *)

\* The walk has not raised: the entries 1..idx have been visited.
Walking == pc \in {"visit", "returned"}

\* The diagnostics of the rules in R reported at offset start.
DiagnosticsAt(start, R) ==
    IF results = <<>> \/ ~span_resolves(start) THEN {}
    ELSE LET at == span_to_line_and_col(start)
         IN  {j \in 1..Len(results) :
                 /\ results[j].rule \in R
                 /\ results[j].line = at.line
                 /\ results[j].col = at.col}

Rules(R) == {j \in 1..Len(results) : results[j].rule \in R}

\* The rules that read the configuration.
ConfiguredRules == {"ID01", "ID02", "SY01", "SY02", "SY03", "SY04", "SY05"}

\* The messages among the first k entries that are named name.
MessagesNamed(name, k) ==
    {j \in 1..k : body[j].kind = "Message" /\ body[j].name = name}

----------------------------------------------------------------------------
(* C1 *)

----------------------------------------------------------------------------
(* C2 *)

\* C2: in a walk that has not raised, every visited Message whose name was
\* carried by an earlier Message has exactly one MI01 at its position, every
\* other visited Message has none, and the MI01 diagnostics for a name
\* carried by k >= 1 visited Messages number k - 1.
C2_DuplicateMessages ==
    Walking =>
        /\ \A k \in 1..idx :
               body[k].kind = "Message" =>
                   Cardinality(DiagnosticsAt(body[k].start, {"MI01"}))
                       = IF MessagesNamed(body[k].name, k - 1) # {} THEN 1 ELSE 0
        /\ \A k \in 1..idx :
               body[k].kind = "Message" =>
                   Cardinality({j \in Rules({"MI01"}) : results[j].msg = body[k].name})
                       = Cardinality(MessagesNamed(body[k].name, idx)) - 1
        /\ \A j \in Rules({"MI01"}) : MessagesNamed(results[j].msg, idx) # {}

\* Three messages of one name have been linted: two MI01, none for the first.
C2_Witness ==
    /\ pc = "returned"
    /\ \E k \in 1..Len(body) : Cardinality(MessagesNamed(body[k].name, Len(body))) = 3
    /\ Cardinality(Rules({"MI01"})) = 2
    /\ DiagnosticsAt(body[1].start, {"MI01"}) = {}

----------------------------------------------------------------------------
(* C3 *)

\* C3: in a walk that has not raised, every visited ResourceComment that
\* comes after a Message, whatever the shape of the Message, has exactly one
\* RC01 and no RC02 or RC03.
C3_ResourceCommentAfterMessage ==
    Walking =>
        \A k \in 1..idx :
            (/\ body[k].kind = "ResourceComment"
             /\ \E j \in 1..(k - 1) : body[j].kind = "Message")
            => /\ Cardinality(DiagnosticsAt(body[k].start, {"RC01"})) = 1
               /\ DiagnosticsAt(body[k].start, {"RC02", "RC03"}) = {}

----------------------------------------------------------------------------
(* C4 *)

\* A group comment among the entries before entry k has had no message or
\* term after it.
Pending(k) ==
    \E j \in 1..(k - 1) :
        /\ body[j].kind = "GroupComment"
        /\ \A m \in (j + 1)..(k - 1) : body[m].kind \notin {"Message", "Term"}

\* C4: in a walk that has not raised, a visited GroupComment has exactly one
\* GC04 if an earlier GroupComment has had no Message or Term after it and
\* none otherwise; with GC04 it has no GC01, GC02 or GC03; and the state
\* says a group comment is pending exactly when one is.
C4_GroupCommentPending ==
    Walking =>
        /\ \A k \in 1..idx :
               body[k].kind = "GroupComment" =>
                   /\ Cardinality(DiagnosticsAt(body[k].start, {"GC04"}))
                          = IF Pending(k) THEN 1 ELSE 0
                   /\ Pending(k) =>
                          DiagnosticsAt(body[k].start, {"GC01", "GC02", "GC03"}) = {}
        /\ can_have_group_comment = ~Pending(idx + 1)

\* Three group comments in a row have been linted: GC04 for the second and
\* the third, not for the first.
C4_Witness ==
    /\ pc = "returned" /\ Len(body) = 3
    /\ \A k \in 1..3 : body[k].kind = "GroupComment"
    /\ DiagnosticsAt(body[1].start, {"GC04"}) = {}
    /\ DiagnosticsAt(body[2].start, {"GC04"}) # {}
    /\ DiagnosticsAt(body[3].start, {"GC04"}) # {}

----------------------------------------------------------------------------
(* C5, C6 *)

\* The rules of the diagnostics a step adds.
NewRules ==
    [j \in 1..(Len(results') - Len(results)) |-> results'[Len(results) + j].rule]

\* The run of newline characters that ends just before offset i + 1.
RECURSIVE NewlinesUpTo(_, _)
NewlinesUpTo(c, i) ==
    IF i < 0 \/ c[i + 1] # NL THEN 0 ELSE 1 + NewlinesUpTo(c, i - 1)

\* One blank line after the node, one blank line before it.
BlankLineAfter(node) == CountAfter(contents, node.end) = 2
BlankLineBefore(node) == NewlinesUpTo(contents, node.start - 1) = 2

\* C5: the visit of a GroupComment while none is pending, when it does not
\* raise, adds GC01 if the comment is the last entry and has content,
\* nothing if it is the last entry and empty, else GC02 if no single blank
\* line follows it, else GC03 if no single blank line precedes it, else
\* nothing.
C5_GroupCommentChecks ==
    [][(NextIs("GroupComment") /\ can_have_group_comment /\ pc' = "visit") =>
        LET node == body[idx + 1]
        IN  NewRules =
                IF idx + 1 = Len(body)
                THEN IF node.content # <<>> THEN <<"GC01">> ELSE <<>>
                ELSE IF ~BlankLineAfter(node) THEN <<"GC02">>
                ELSE IF ~BlankLineBefore(node) THEN <<"GC03">>
                ELSE <<>>]_vars

\* C6: the visit of a ResourceComment while resource comments are allowed,
\* in a file with other entries, with no single blank line after it, adds
\* exactly RC02 when it does not raise.
C6_ResourceCommentBlankLineAfter ==
    [][(/\ NextIs("ResourceComment") /\ node_can_be_resource_comment
        /\ Len(body) > 1 /\ ~BlankLineAfter(body[idx + 1])
        /\ pc' = "visit")
       => NewRules = <<"RC02">>]_vars

----------------------------------------------------------------------------
(* C7, C8 *)

\* The conditions of the two identifier rules, read off the configuration.
LengthRuleFires(name) ==
    /\ "ID02" \in DOMAIN config
    /\ config["ID02"].enabled
    /\ Len(name) < config["ID02"].min_length
    /\ path \notin config["ID02"].exclusions.files
    /\ name \notin config["ID02"].exclusions.messages

FormatRuleFires(name) ==
    /\ "ID01" \in DOMAIN config
    /\ config["ID01"].enabled
    /\ path \notin config["ID01"].exclusions.files
    /\ name \notin config["ID01"].exclusions.messages
    /\ \/ name = <<>>
       \/ \E k \in 1..Len(name) :
              name[k] \notin LowerChars \cup DigitChars \cup {"-"}

\* C7: in a walk that has not raised, the identifier of every visited
\* Message or Term has exactly one ID02 if ID02 is configured and enabled,
\* the name is shorter than min_length and neither the file nor the name is
\* excluded for ID02, and none otherwise.
C7_IdentifierLength ==
    Walking =>
        \A k \in 1..idx :
            body[k].kind \in {"Message", "Term"} =>
                Cardinality(DiagnosticsAt(body[k].idstart, {"ID02"}))
                    = IF LengthRuleFires(body[k].name) THEN 1 ELSE 0

\* min_length 3 and "ok" excluded: "ok" has no ID02, "no" has one.
C7_Witness ==
    /\ pc = "returned" /\ Len(body) = 2
    /\ RuleEnabled("ID02") /\ config["ID02"].min_length = 3
    /\ IdOk \in config["ID02"].exclusions.messages
    /\ body[1].kind = "Message" /\ body[1].name = IdOk
    /\ body[2].kind = "Message" /\ body[2].name = IdNo
    /\ DiagnosticsAt(body[1].idstart, {"ID02"}) = {}
    /\ Cardinality(DiagnosticsAt(body[2].idstart, {"ID02"})) = 1

\* C8: in a walk that has not raised, the identifier of every visited
\* Message or Term has exactly one ID01 if ID01 is configured and enabled,
\* neither the file nor the name is excluded for ID01 and the name is not
\* all of [a-z0-9-], and none otherwise, whatever ID02 says of it.
C8_IdentifierFormat ==
    Walking =>
        \A k \in 1..idx :
            body[k].kind \in {"Message", "Term"} =>
                Cardinality(DiagnosticsAt(body[k].idstart, {"ID01"}))
                    = IF FormatRuleFires(body[k].name) THEN 1 ELSE 0

\* With both rules enabled and nothing excluded, the short identifier "No"
\* has one ID01 and one ID02.
C8_Witness ==
    /\ pc = "returned"
    /\ RuleEnabled("ID01") /\ RuleEnabled("ID02")
    /\ \E k \in 1..Len(body) :
           /\ body[k].name = IdBad
           /\ Cardinality(DiagnosticsAt(body[k].idstart, {"ID01"})) = 1
           /\ Cardinality(DiagnosticsAt(body[k].idstart, {"ID02"})) = 1

----------------------------------------------------------------------------
(* C9, C10 *)

\* The attributes of the entries, and the places of their identifiers: the
\* identifier of an attribute starts after its ".".
Attributes(k) == {body[k].attributes[n] : n \in 1..Len(body[k].attributes)}
AttributeIdStart(a) == a.start + 1

\* C9 as stated: when attributes are not disabled by SY05, the identifier of
\* every attribute of a visited entry has ID01 and ID02 decided as for the
\* identifier of a message.
C9_AttributeIdentifiersChecked ==
    (Walking /\ ~ConstructDisabled("SY05")) =>
        \A k \in 1..idx : \A a \in Attributes(k) :
            /\ Cardinality(DiagnosticsAt(AttributeIdStart(a), {"ID01"}))
                   = IF FormatRuleFires(a.name) THEN 1 ELSE 0
            /\ Cardinality(DiagnosticsAt(AttributeIdStart(a), {"ID02"}))
                   = IF LengthRuleFires(a.name) THEN 1 ELSE 0

\* C9 as amended: ID01 and ID02 are never run on the identifier of an
\* Attribute, whether or not attributes are disabled by SY05; only its value
\* is visited.
C9_AttributeIdentifiersNotChecked ==
    \A k \in 1..Len(body) : \A a \in Attributes(k) :
        DiagnosticsAt(AttributeIdStart(a), {"ID01", "ID02"}) = {}

\* An attribute whose short, badly formed identifier both rules would
\* report has been visited with attributes supported, and has neither.
C9_Witness ==
    /\ pc = "returned" /\ ~ConstructDisabled("SY05")
    /\ \E k \in 1..Len(body) : \E a \in Attributes(k) :
           /\ FormatRuleFires(a.name) /\ LengthRuleFires(a.name)
           /\ DiagnosticsAt(AttributeIdStart(a), {"ID01", "ID02"}) = {}

\* The references in the values of entry k and of its attributes, and the
\* offsets each one spans.
RECURSIVE Flatten(_)
Flatten(ss) == IF ss = <<>> THEN <<>> ELSE Head(ss).value \o Flatten(Tail(ss))

References(k) ==
    LET es == body[k].value \o Flatten(body[k].attributes)
    IN  {es[n] : n \in {m \in 1..Len(es) : es[m].kind \in ReferenceKinds}}

ReferenceSpan(e) == e.start..(e.end - 1)

AllRules ==
    {"MI01", "ID01", "ID02", "SY01", "SY02", "SY03", "SY04", "SY05",
     "RC01", "RC02", "RC03", "GC01", "GC02", "GC03", "GC04",
     "TE01", "TE02", "TE03", "TE04", "TE05"}

\* The rule a reference node itself can be reported for.
OwnRule(e) ==
    CASE e.kind = "MessageReference" -> {"SY02"}
      [] e.kind = "TermReference" -> {"SY03"}
      [] OTHER -> {}

\* C10: no diagnostic is ever reported at an offset inside a MessageReference,
\* TermReference, FunctionReference or VariableReference, its identifier
\* included, other than SY02 or SY03 for the reference node itself.
C10_ReferencesNotEntered ==
    \A k \in 1..Len(body) : \A e \in References(k) :
        /\ \A at \in ReferenceSpan(e) \ {e.start} : DiagnosticsAt(at, AllRules) = {}
        /\ DiagnosticsAt(e.start, AllRules \ OwnRule(e)) = {}

\* With ID01 and ID02 enabled, a message whose value refers to the short,
\* badly formed "N" has been linted without either of them.
C10_Witness ==
    /\ pc = "returned"
    /\ RuleEnabled("ID01") /\ RuleEnabled("ID02")
    /\ Len(body) = 1
    /\ \E e \in References(1) :
           /\ e \in {body[1].value[n] : n \in 1..Len(body[1].value)}
           /\ e.kind = "MessageReference"
           /\ FormatRuleFires(e.text) /\ LengthRuleFires(e.text)
    /\ Rules({"ID01", "ID02"}) = {}

----------------------------------------------------------------------------
(* C11 *)

\* The messages and terms among the first k entries that are named name.
EntriesNamed(name, k) ==
    {j \in 1..k : body[j].kind \in {"Message", "Term"} /\ body[j].name = name}

\* C11: in a walk that has not raised, every visited Term whose name was
\* carried by an earlier Message or Term of the file has exactly one MI01 at
\* its position, and the name of every visited Term is in the seen set.
C11_DuplicateTerms ==
    Walking =>
        \A k \in 1..idx :
            body[k].kind = "Term" =>
                /\ EntriesNamed(body[k].name, k - 1) # {} =>
                       Cardinality(DiagnosticsAt(body[k].start, {"MI01"})) = 1
                /\ InSeq(body[k].name, ids)

----------------------------------------------------------------------------
(* C12, C13 *)

\* The offsets of the newline characters strictly before offset o, and
\* whether a newline is at or after o.
NewlinesBefore(o) == {n \in 0..(o - 1) : contents[n + 1] = NL}
NewlineFrom(o) == \E n \in o..(Len(contents) - 1) : contents[n + 1] = NL
NoCarriageReturn == \A n \in 1..Len(contents) : contents[n] # CR

\* C12: in a source without carriage returns, every offset o at or before
\* the last newline resolves to line 1 + the number of newlines strictly
\* before o and to column o - the offset of the nearest newline strictly
\* before o, or o + 1 when no newline precedes o.
C12_PositionResolution ==
    NoCarriageReturn =>
        \A o \in 0..(Len(contents) - 1) :
            NewlineFrom(o) =>
                /\ span_resolves(o)
                /\ LET at == span_to_line_and_col(o)
                       before == NewlinesBefore(o)
                   IN  /\ at.line = 1 + Cardinality(before)
                       /\ at.col = IF before = {} THEN o + 1 ELSE o - Max(before)

\* An attribute on the second line of a message has been reported: SY05 at
\* line 2, column 2, for the offset of its ".".
C12_Witness ==
    /\ pc = "returned" /\ Len(body) = 1 /\ Len(body[1].attributes) = 1
    /\ LET o == body[1].attributes[1].start
       IN  /\ Cardinality(NewlinesBefore(o)) = 1
           /\ o - Max(NewlinesBefore(o)) = 2
           /\ \E j \in Rules({"SY05"}) : results[j].line = 2 /\ results[j].col = 2

\* C13: in a source without carriage returns every offset resolves, those
\* after the last newline included, so that the walk of a file whose last
\* line is not terminated never raises when it adds a diagnostic.
C13_ResolutionTotal ==
    NoCarriageReturn => pc # "raised"

----------------------------------------------------------------------------
(* C14 *)

\* C14: the walk of a file whose text holds a carriage return never returns
\* diagnostics: it raises, wherever the carriage return is and whether or
\* not the file holds resource or group comments.
C14_CarriageReturnFatal ==
    ~NoCarriageReturn => pc # "returned"

----------------------------------------------------------------------------
(* C15, C16, C17 *)

TextRules == {"TE01", "TE02", "TE03", "TE04", "TE05"}

\* The TextElements of entry k that the walk visits: those of its value and,
\* unless attributes are disabled, those of the values of its attributes.
VisitedTextElements(k) ==
    LET es == body[k].value
              \o (IF ConstructDisabled("SY05") THEN <<>> ELSE Flatten(body[k].attributes))
    IN  {es[n] : n \in {m \in 1..Len(es) : es[m].kind = "TextElement"}}

\* The text holds three periods in a row; it holds no tag and no character
\* reference.
ThreePeriods(t) ==
    \E n \in 1..(Len(t) - 2) : t[n] = "." /\ t[n + 1] = "." /\ t[n + 2] = "."
NoMarkup(t) == (\A n \in 1..Len(t) : t[n] # "<") /\ unescape(t) = t

\* C15: in a walk that has not raised, a visited TextElement without markup
\* has exactly one TE05 if its text holds three periods in a row, however
\* often, and none otherwise.
C15_EllipsisRule ==
    Walking =>
        \A k \in 1..idx : \A e \in VisitedTextElements(k) :
            NoMarkup(e.text) =>
                Cardinality(DiagnosticsAt(e.start, {"TE05"}))
                    = IF ThreePeriods(e.text) THEN 1 ELSE 0

\* A straight apostrophe stands between two word characters of t.
ApostropheBetweenWords(t) ==
    \E n \in 1..(Len(t) - 2) :
        t[n] \in WordChars /\ t[n + 1] = APOS /\ t[n + 2] \in WordChars

\* C16: in a walk that has not raised, a visited TextElement has a TE01 only
\* if, once its paired single-quoted spans are collapsed, a straight
\* apostrophe stands between two word characters.
C16_ApostropheBetweenWords ==
    Walking =>
        \A k \in 1..idx : \A e \in VisitedTextElements(k) :
            DiagnosticsAt(e.start, {"TE01"}) # {} =>
                ApostropheBetweenWords(single_quote_re_sub(e.text))

\* The rules of the text diagnostics reported at offset start, in order.
RECURSIVE RulesOf(_)
RulesOf(rs) == IF rs = <<>> THEN <<>> ELSE <<Head(rs).rule>> \o RulesOf(Tail(rs))

TextRulesAt(start) ==
    LET at(r) == /\ r.rule \in TextRules
                 /\ r.line = span_to_line_and_col(start).line
                 /\ r.col = span_to_line_and_col(start).col
    IN  RulesOf(SelectSeq(results, at))

\* The rules a TextElement of this text at offset start is reported for.
TextRulesFor(text, start) ==
    RulesOf(visit_TextElement([Linter EXCEPT !.results = <<>>],
                              [kind |-> "TextElement", text |-> text,
                               start |-> start]).results)

\* C17: in a walk that has not raised, the text diagnostics of a visited
\* TextElement are those of every text with the same extracted data runs,
\* whatever its tags hold, and no rule is reported more often than there
\* are data runs.
C17_MarkupNotInspected ==
    Walking =>
        \A k \in 1..idx : \A e \in VisitedTextElements(k) :
            /\ \A other \in TextValues :
                   extracted_text(other) = extracted_text(e.text) =>
                       TextRulesFor(other, e.start) = TextRulesAt(e.start)
            /\ \A rule \in TextRules :
                   Cardinality(DiagnosticsAt(e.start, {rule}))
                       <= Len(extracted_text(e.text))

----------------------------------------------------------------------------
(* C18, C19, C20 *)

\* The last n lines printed.
LastPrinted(n) == SubSeq(output, Len(output) - n + 1, Len(output))

\* C18: when a run over an existing root folder completes, the exit code is
\* 1 if lint() returned at least one diagnostic and 0 if it returned none,
\* and the diagnostics returned are the last lines printed, in order.
C18_ExitCode ==
    (pc = "exited" /\ env.root_exists) =>
        /\ exit_code = IF lint_results # <<>> THEN 1 ELSE 0
        /\ lint_results # <<>> =>
               /\ Len(output) >= Len(lint_results)
               /\ LastPrinted(Len(lint_results)) = lint_results

\* A run over two files with one diagnostic each has completed: both are
\* printed and the exit code is 1.
C18_Witness ==
    /\ pc = "exited" /\ env.root_exists
    /\ Len(lint_results) = 2
    /\ lint_results[1].file # lint_results[2].file
    /\ output = lint_results
    /\ exit_code = 1

\* The root folder is missing, or a configuration file was named and is
\* missing.
MissingInput == ~env.root_exists \/ (env.config_given /\ ~env.config_exists)

\* C19: a run whose root folder is missing, or whose named configuration
\* file is missing, ends with a non-zero exit code, without having linted a
\* file and without "No errors found.".
C19_MissingInputFatal ==
    (MissingInput /\ pc \in {"exited", "aborted"}) =>
        /\ exit_code # 0
        /\ path = ""
        /\ \A n \in 1..Len(output) : output[n] # NoErrorsFound

\* The warning lint() prints before it reads the files.
Warnings ==
    IF env.config_given /\ ~env.config_exists THEN <<ConfigNotFound>> ELSE <<>>

\* C20 as stated: a completed run without diagnostics, its root folder and
\* configuration file in place, has printed nothing.
C20_NoOutputOnSuccess ==
    (pc = "exited" /\ lint_results = <<>> /\ ~MissingInput) => output = <<>>

\* C20 as amended: a completed run without diagnostics has printed no
\* diagnostic: its output is the line "No errors found.", after the warning
\* about a named configuration file that is missing, if any.
C20_SuccessOutput ==
    (pc = "exited" /\ lint_results = <<>>) =>
        output = Warnings \o <<NoErrorsFound>>

\* A run that linted a file, found nothing and printed only "No errors
\* found." has completed.
C20_Witness ==
    /\ pc = "exited" /\ lint_results = <<>>
    /\ path # "" /\ idx = Len(body) /\ idx > 0
    /\ output = <<NoErrorsFound>>
    /\ exit_code = 0

----------------------------------------------------------------------------
(* C21 *)

\* The file being linted has a syntax error: the parser gave a Junk entry.
HasSyntaxError == \E k \in 1..Len(body) : body[k].kind = "Junk"

\* A line of output that reports a file that could not be parsed.
FileLevelErrors == {n \in 1..Len(output) : output[n] = Printed("Syntax error")}

\* C21: the visitor is not run on a file with a syntax error: none of its
\* entries is visited, the traversal state stays as built and no diagnostic
\* is added, and once the file is done a file-level error has been printed.
C21_SyntaxErrorFile ==
    HasSyntaxError =>
        /\ idx = 0 /\ results = <<>> /\ ids = <<>>
        /\ node_can_be_resource_comment /\ can_have_group_comment
        /\ pc \in {"returned", "exited"} => FileLevelErrors # {}

----------------------------------------------------------------------------
(* C22 *)

\* C22: the diagnostics lint() has collected are ordered by file, least
\* path first, whatever the order of the walk; while a file is linted every
\* diagnostic collected is of a lesser path and every file still to read is
\* of a greater one; and when the walk of a file returns its diagnostics are
\* the end of the list.
C22_SortedOrder ==
    /\ \A i, j \in 1..Len(lint_results) :
           i < j => ~Before(lint_results[j].file, lint_results[i].file)
    /\ pc \in {"start", "visit", "returned"} =>
           \A n \in 1..Len(pending) : Before(path, pending[n])
    /\ pc \in {"start", "visit"} =>
           \A i \in 1..Len(lint_results) : Before(lint_results[i].file, path)
    /\ pc = "returned" =>
           /\ Len(lint_results) >= Len(results)
           /\ SubSeq(lint_results, Len(lint_results) - Len(results) + 1,
                     Len(lint_results)) = results

\* The walk yielded b.ftl before a.ftl, each with one diagnostic, and the
\* run has ended with that of a.ftl first.
C22_Witness ==
    /\ pc = "exited"
    /\ \E m, n \in 1..Len(env.walk) :
           m < n /\ env.walk[m] = "b.ftl" /\ env.walk[n] = "a.ftl"
    /\ Len(lint_results) = 2
    /\ lint_results[1].file = "a.ftl" /\ lint_results[2].file = "b.ftl"

----------------------------------------------------------------------------
(* C23 *)

\* C23: a second run over the same files and configuration does not raise,
\* and when it ends lint() has returned the list it returned in the first
\* run and the same lines have been printed, whatever the order in which
\* the walk yields the files in either run.
C23_Deterministic ==
    previous # <<>> =>
        /\ pc \notin {"raised", "aborted"}
        /\ pc = "exited" =>
               /\ lint_results = previous[1].results
               /\ output = previous[1].output

\* A second run has ended in which the walk yielded the files in another
\* order than in the first; both returned the same two diagnostics.
C23_Witness ==
    /\ pc = "exited" /\ previous # <<>>
    /\ previous[1].walk # env.walk
    /\ Len(lint_results) = 2
    /\ lint_results = previous[1].results

----------------------------------------------------------------------------
(* C24 *)

\* The types of the nodes that reach Linter.generic_visit.
NodeNames ==
    {"Resource", "Span", "Comment", "GroupComment", "ResourceComment", "Message",
     "Term", "Junk", "Annotation", "Pattern", "Placeable", "Identifier"}

\* C24: the Linter of a file starts with node_can_be_resource_comment true;
\* once it is false, Linter.generic_visit leaves it false for a node of any
\* type, and no step of the walk of the file makes it true.
C24_FlagMonotone ==
    /\ [](pc = "start" => node_can_be_resource_comment)
    /\ [](\A name \in NodeNames :
             ~generic_visit([Linter EXCEPT !.rc = FALSE], name).rc)
    /\ [][(pc \in {"start", "visit"} /\ ~node_can_be_resource_comment)
           => ~node_can_be_resource_comment']_vars

\* A walk has returned with the flag false in which a comment of each kind
\* or a second message was visited after the entry that cleared it.
C24_Witness ==
    /\ pc = "returned" /\ ~node_can_be_resource_comment
    /\ Len(body) = 3
    /\ body[1].kind = "Message" /\ body[1].hasValue
    /\ body[2].kind = "Comment"
    /\ body[3].kind \in CommentKinds

----------------------------------------------------------------------------
(* C25 *)

\* C25: the visit of a ResourceComment while resource comments are allowed,
\* when it does not raise, adds nothing if the comment is the only entry of
\* the file; else, if one blank line follows the comment, it adds exactly
\* RC03 if the run of newlines that ends just before the comment is not of
\* length 2, the start of the file included, and nothing if it is.
C25_ResourceCommentBlankLineBefore ==
    [][(NextIs("ResourceComment") /\ node_can_be_resource_comment /\ pc' = "visit") =>
        LET node == body[idx + 1]
        IN  IF Len(body) = 1 THEN NewRules = <<>>
            ELSE BlankLineAfter(node) =>
                     NewRules = IF BlankLineBefore(node) THEN <<>> ELSE <<"RC03">>]_vars

----------------------------------------------------------------------------
(* C26, C27 *)

\* The select expressions the walk reaches from a pattern: those of its
\* placeables and, unless variants are disabled, those of their variants.
RECURSIVE Selects(_)
Selects(p) ==
    UNION {IF p[n].kind # "SelectExpression" THEN {}
           ELSE {p[n]}
                \cup (IF ConstructDisabled("SY04") THEN {}
                      ELSE UNION {Selects(p[n].variants[v].value) :
                                      v \in 1..Len(p[n].variants)}) :
               n \in 1..Len(p)}

ReachedSelects(k) ==
    Selects(body[k].value)
    \cup (IF ConstructDisabled("SY05") THEN {}
          ELSE UNION {Selects(a.value) : a \in Attributes(k)})

\* One diagnostic, of this rule, at the start of the node and none at any
\* other offset before its end.
Pruned(node, rule) ==
    /\ Cardinality(DiagnosticsAt(node.start, AllRules)) = 1
    /\ DiagnosticsAt(node.start, {rule}) # {}
    /\ \A at \in (node.start + 1)..(node.end - 1) : DiagnosticsAt(at, AllRules) = {}

\* The element has been reported as its own visit reports it: a text for
\* its text rules, a message or term reference once if it is disabled.
Checked(e) ==
    CASE e.kind = "TextElement" -> TextRulesAt(e.start) = TextRulesFor(e.text, e.start)
      [] e.kind = "MessageReference" ->
             Cardinality(DiagnosticsAt(e.start, {"SY02"}))
                 = IF ConstructDisabled("SY02") THEN 1 ELSE 0
      [] e.kind = "TermReference" ->
             Cardinality(DiagnosticsAt(e.start, {"SY03"}))
                 = IF ConstructDisabled("SY03") THEN 1 ELSE 0
      [] OTHER -> TRUE

\* C26: in a walk that has not raised, with attributes disabled every
\* attribute has exactly one diagnostic, SY05, and nothing is reported
\* inside it; with variants disabled every select expression the walk
\* reaches has exactly one diagnostic, SY04, and nothing is reported inside
\* it; when attributes are not disabled the texts and references of every
\* attribute value are checked, and when variants are not disabled those of
\* every variant value of a reached select expression are.
C26_DisabledConstructPruned ==
    Walking =>
        \A k \in 1..idx :
            /\ \A a \in Attributes(k) :
                   IF ConstructDisabled("SY05") THEN Pruned(a, "SY05")
                   ELSE \A n \in 1..Len(a.value) : Checked(a.value[n])
            /\ \A e \in ReachedSelects(k) :
                   IF e.variants # <<>> /\ ConstructDisabled("SY04") THEN Pruned(e, "SY04")
                   ELSE /\ DiagnosticsAt(e.start, {"SY04"}) = {}
                        /\ \A v \in 1..Len(e.variants) :
                               \A n \in 1..Len(e.variants[v].value) :
                                   Checked(e.variants[v].value[n])

\* With variants and term references disabled and attributes allowed, a
\* message whose value selects between the text "..." and a term reference
\* and whose attribute refers to a term has been linted: one SY04 for the
\* select expression, one SY03 for the attribute's reference.
C26_Witness ==
    /\ pc = "returned"
    /\ ConstructDisabled("SY04") /\ ConstructDisabled("SY03")
    /\ ~ConstructDisabled("SY05")
    /\ Len(body) = 1
    /\ \E e \in Selects(body[1].value) :
           /\ \E v \in 1..Len(e.variants) :
                  /\ e.variants[v].value[1].kind = "TextElement"
                  /\ TextRulesFor(e.variants[v].value[1].text, e.variants[v].value[1].start)
                         # <<>>
           /\ \E v \in 1..Len(e.variants) : e.variants[v].value[1].kind = "TermReference"
    /\ \E a \in Attributes(1) : a.value[1].kind = "TermReference"
    /\ RulesOf(results) = <<"SY04", "SY03">>

\* The references that occur in a pattern outside a disabled select
\* expression: those of its placeables, of their arguments, and the
\* selector and the variant values of its select expressions.
RECURSIVE ReferencesOf(_)
ReferencesOf(e) ==
    IF e.kind = "SelectExpression"
    THEN IF e.variants # <<>> /\ ConstructDisabled("SY04") THEN {}
         ELSE ReferencesOf(e.selector)
              \cup UNION {UNION {IF e.variants[v].value[n].kind = "TextElement" THEN {}
                                 ELSE ReferencesOf(e.variants[v].value[n]) :
                                     n \in 1..Len(e.variants[v].value)} :
                              v \in 1..Len(e.variants)}
    ELSE {e} \cup UNION {ReferencesOf(e.arguments[n]) : n \in 1..Len(e.arguments)}

ReferencesIn(p) ==
    UNION {IF p[n].kind = "TextElement" THEN {} ELSE ReferencesOf(p[n]) : n \in 1..Len(p)}

\* The references of entry k outside every disabled attribute and select
\* expression.
Occurring(k) ==
    ReferencesIn(body[k].value)
    \cup (IF ConstructDisabled("SY05") THEN {}
          ELSE UNION {ReferencesIn(a.value) : a \in Attributes(k)})

\* C27: in a walk that has not raised, with term references disabled every
\* TermReference outside a disabled attribute or select expression has
\* exactly one SY03 at its start, a selector or an argument of a call
\* included, and with message references disabled every MessageReference
\* has exactly one SY02.
C27_EveryReferenceReported ==
    Walking =>
        \A k \in 1..idx : \A e \in Occurring(k) :
            /\ (e.kind = "TermReference" /\ ConstructDisabled("SY03")) =>
                   Cardinality(DiagnosticsAt(e.start, {"SY03"})) = 1
            /\ (e.kind = "MessageReference" /\ ConstructDisabled("SY02")) =>
                   Cardinality(DiagnosticsAt(e.start, {"SY02"})) = 1

----------------------------------------------------------------------------
(* C28 *)

\* Entries k1 < k2 of the file being linted are both of this kind.
TwoOfKind(kind, same_name) ==
    \E k1, k2 \in 1..Len(body) :
        /\ k1 < k2
        /\ body[k1].kind = kind /\ body[k2].kind = kind
        /\ same_name => body[k1].name = body[k2].name

\* C28: when the walk of a file starts no identifier has been seen, a
\* resource comment is allowed, no group comment is pending and the file
\* has no diagnostic; MI01 is reported only in a file that has two messages
\* of the same name and GC04 only in a file that has two group comments;
\* and a file linted after a file of the same content gets the diagnostics
\* that file got when it was linted first.
C28_StatePerFile ==
    /\ pc = "start" =>
           /\ ids = <<>> /\ results = <<>>
           /\ node_can_be_resource_comment /\ can_have_group_comment
    /\ Rules({"MI01"}) # {} => TwoOfKind("Message", TRUE)
    /\ Rules({"GC04"}) # {} => TwoOfKind("GroupComment", FALSE)
    /\ (/\ pc = "returned" /\ path = "b.ftl" /\ "a.ftl" \in DOMAIN env.folder
        /\ env.folder["a.ftl"] = env.folder["b.ftl"]) =>
           /\ Len(lint_results) = 2 * Len(results)
           /\ \A j \in 1..Len(results) :
                  /\ lint_results[j] = [results[j] EXCEPT !.file = "a.ftl"]
                  /\ lint_results[Len(results) + j] = results[j]

\* Two files of one group comment each have been linted: GC01 for each,
\* and no GC04.
C28_Witness ==
    /\ pc = "returned" /\ path = "b.ftl"
    /\ "a.ftl" \in DOMAIN env.folder
    /\ env.folder["a.ftl"] = env.folder["b.ftl"]
    /\ body[1].kind = "GroupComment"
    /\ RulesOf(lint_results) = <<"GC01", "GC01">>

----------------------------------------------------------------------------
(* C29 *)

\* Diagnostic d is at the position of e or before it in the file.
NotAfter(d, e) == d.line < e.line \/ (d.line = e.line /\ d.col <= e.col)

\* C29: the diagnostics of a file are in the order of the file: of any two,
\* the one appended earlier is at the same position as the later one or
\* before it (positions are in the order of the offsets they resolve).
C29_DocumentOrder ==
    \A i, j \in 1..Len(results) : i < j => NotAfter(results[i], results[j])

\* A term has been linted with a diagnostic of its own (SY01), one in its
\* value (SY02) and one for its attribute (SY05), at three positions.
C29_Witness ==
    /\ pc = "returned"
    /\ \E i, j, k \in 1..Len(results) :
           /\ i < j /\ j < k
           /\ results[i].rule = "SY01" /\ results[j].rule = "SY02"
           /\ results[k].rule = "SY05"
           /\ ~NotAfter(results[j], results[i]) /\ ~NotAfter(results[k], results[j])

----------------------------------------------------------------------------
(* C30 *)

\* C30: in a walk that has not raised, an empty GroupComment that is the
\* last entry of the file has no diagnostic, whether or not an earlier
\* group comment is still waiting for its message.
C30_EmptyLastGroupComment ==
    Walking =>
        \A k \in 1..idx :
            (/\ k = Len(body)
             /\ body[k].kind = "GroupComment" /\ body[k].content = <<>>) =>
                DiagnosticsAt(body[k].start, AllRules) = {}

============================================================================
